---- MODULE Spec2Model ----
(***************************************************************************)
(* Order pricing and lifecycle engine of thebiharimakhana-backend.         *)
(*                                                                         *)
(* The model follows the latest snapshot of the server                     *)
(* (src/unnamed/part_006, lines 400-1591).  The relational store is the    *)
(* only shared state: the tables coupons, orders, users and reviews.  Each *)
(* HTTP handler is one action; `sent` records every e-mail the mail        *)
(* provider took and `last` the outcome (and the handler's locals) of the  *)
(* request handled last.  `pending` holds the requests that are between    *)
(* two of their awaits, when requests run concurrently, and `clock` is the *)
(* time of the server in milliseconds.                                     *)
(*                                                                         *)
(* Money.  JavaScript computes with decimal fractions of a rupee; the      *)
(* store keeps NUMERIC(10,2).  Amounts computed by a handler are integers  *)
(* counted in units of 1/10000 paisa (10^-6 rupee), which represents       *)
(* price * quantity and subtotal * (value / 100) exactly for prices in     *)
(* whole paise and coupon values with two decimals.  Amounts stored in a   *)
(* NUMERIC(10,2) column are integers counted in paise.                     *)
(***************************************************************************)
EXTENDS Integers, Sequences, FiniteSets, TLC

VARIABLES coupons, orders, users, reviews, sent, nextOrderId, nextReviewId,
          pending, last, clock

vars == <<coupons, orders, users, reviews, sent, nextOrderId, nextReviewId,
          pending, last, clock>>

-----------------------------------------------------------------------------
(* Bounds of the model *)

MaxOrders == 2

MaxSent == 2

MaxReviews == 2

MaxClock == 3

-----------------------------------------------------------------------------
(* Units of money *)

Paise == 100 * 100

Rupee == 100 * Paise

FreeShippingThreshold == 500 * Rupee

ShippingFee == 99 * Rupee

Min(a, b) == IF a <= b THEN a ELSE b

\* A JavaScript number bound to a NUMERIC(10,2) column: rounded to two
\* decimals, ties away from zero.  Argument in units, result in paise.
RoundToPaise(x) ==
  IF x >= 0 THEN (x + (Paise \div 2)) \div Paise
            ELSE 0 - (((0 - x) + (Paise \div 2)) \div Paise)

-----------------------------------------------------------------------------
(* Strings of coupon codes: sequences of characters *)

UpperChar(c) ==
  CASE c = "a" -> "A"
    [] c = "b" -> "B"
    [] OTHER   -> c

ToUpperCase(s) == [i \in DOMAIN s |-> UpperChar(s[i])]

\* The absent or empty couponCode (falsy in JavaScript); also SQL NULL in
\* orders.coupon_used.
NoCode == << >>

\* Coupon codes typed by a customer, and those typed into the add-coupon form.
CodeInputs == { <<"a", "b">>, <<"A", "b">>, <<"A", "B">>, <<"b", "a">> }

NewCodeInputs == { <<"a", "b">>, <<"A", "b">>, <<"A", "B">> }

-----------------------------------------------------------------------------
(* Request inputs *)

Uids == {"u1", "u2"}

Products == {"makhana-plain", "makhana-roasted"}

\* A product sold by subscription, as its name tells.
SubscriptionProduct == "makhana-subscription"

\* A cart line as sent by the client.  price is in paise; priceIsNumber
\* tells a JSON number (200) from a JSON string ("200").
Line(p, isNum, q) == [price |-> p, priceIsNumber |-> isNum, quantity |-> q]

CartLines ==
  { Line(20000, TRUE, 1), Line(20000, TRUE, 2), Line(25000, TRUE, 2),
    Line(3335, TRUE, 1), Line(20000, FALSE, 1), Line(20000, TRUE, 0) }

EmptyCart == << >>

CartsOver(lines) ==
  UNION { [ps -> lines] : ps \in (SUBSET Products) \ {{}} }

Carts == CartsOver(CartLines) \cup [{SubscriptionProduct} -> CartLines]

\* The carts of the requests of the lifecycle specification.
SmallCarts == [{"makhana-plain"} -> {Line(20000, TRUE, 2)}]

Null == "null"

CompleteAddress == [present |-> TRUE, name |-> "Asha", phone |-> "9", address |-> "Patna"]

\* No addressDetails in the body.
NoAddress == [present |-> FALSE, name |-> Null, phone |-> Null, address |-> Null]

AddressInputs ==
  { CompleteAddress, [CompleteAddress EXCEPT !.name = Null], NoAddress }

NoPayment == ""

PaymentInputs == {NoPayment, "pay_1"}

\* discount_type and discount_value (in hundredths) of the add-coupon form.
CouponRules ==
  { <<"percentage", 1000>>, <<"percentage", 1250>>, <<"percentage", 12000>>,
    <<"fixed", 4000>>, <<"fixed", 100000>>, <<"fixed", 0 - 1000>> }

Statuses == {"Processing", "Shipped", "Delivered", "Cancelled"}

\* SQL NULL in a timestamp column: before every time of the clock.
NoTime == 0 - 1

\* No code in the body of verify-deletion, or an empty one.
NoDeletionCode == ""

\* The codes crypto.randomInt(100000, 999999).toString() gives.
DeletionCodes == {"111111", "222222"}

NewStatusInputs == Statuses \cup {"Refunded"}

OrderIds == 1..MaxOrders

-----------------------------------------------------------------------------
(* Pricing, as both apply-coupon and checkout compute it *)

RECURSIVE SumLines(_, _)
SumLines(cart, names) ==
  IF names = {} THEN 0
  ELSE LET productName == CHOOSE n \in names : TRUE
       IN  cart[productName].price * cart[productName].quantity * Paise
             + SumLines(cart, names \ {productName})

\* for (const productName in cart) subtotal += price * quantity
Subtotal(cart) == SumLines(cart, DOMAIN cart)

\* A faulty ShippingCost: free shipping only above the threshold.
ShippingCostAboveOnly(subtotal) ==
  IF subtotal > FreeShippingThreshold THEN 0 ELSE ShippingFee

ShippingCost(subtotal) ==
  IF subtotal >= FreeShippingThreshold THEN 0 ELSE ShippingFee

\* A faulty ActiveCoupons: the lookup forgets is_active = TRUE.
ActiveCouponsAnyState(table, couponCode) ==
  { c \in table : c.code = ToUpperCase(couponCode) }

\* A faulty ActiveCoupons: the lookup forgets toUpperCase().
ActiveCouponsExactCase(table, couponCode) ==
  { c \in table : c.code = couponCode /\ c.is_active }

\* SELECT * FROM coupons WHERE code = $1 AND is_active = TRUE,
\* with $1 = couponCode.toUpperCase()
ActiveCoupons(table, couponCode) ==
  { c \in table : c.code = ToUpperCase(couponCode) /\ c.is_active }

\* A faulty CouponDiscount: every coupon is taken as a fixed amount.
CouponDiscountFixedOnly(coupon, subtotal) ==
  Min(subtotal, coupon.discount_value * Paise)

\* The discount of a resolved coupon.  subtotal is a whole number of paise,
\* so subtotal * (discount_value / 100) is (subtotal \div Paise) * value units.
CouponDiscount(coupon, subtotal) ==
  LET discount == IF coupon.discount_type = "percentage"
                    THEN (subtotal \div Paise) * coupon.discount_value
                    ELSE coupon.discount_value * Paise
  IN  Min(subtotal, discount)

-----------------------------------------------------------------------------
(* The record of the request handled last: its answer (op, status, the       *)
(* priced amounts, the rows returned), the request's body and the handler's *)
(* locals, and three history fields: `before`, the status the order had in  *)
(* the store when update-order-status arrived (Null when there was no such  *)
(* order), `dispatched`, the e-mails of the request the mail provider took, *)
(* and `sendFailed`, whether the provider refused one.                      *)

NoRequest ==
  [ op |-> "none", status |-> 0, uid |-> Null,
    cart |-> EmptyCart, addressDetails |-> NoAddress, paymentId |-> NoPayment,
    couponCode |-> NoCode,
    subtotal |-> 0, shippingCost |-> 0, discount |-> 0, total |-> 0,
    appliedCoupon |-> NoCode, orderId |-> 0, newStatus |-> Null,
    previousStatus |-> Null, before |-> Null, dispatched |-> << >>,
    sendFailed |-> FALSE, code |-> NoDeletionCode,
    productName |-> Null, rating |-> 0, rows |-> << >> ]

Answer(op, status) == [NoRequest EXCEPT !.op = op, !.status = status]

-----------------------------------------------------------------------------
(* POST /api/apply-coupon *)

ApplyCouponOutcome(table, cart, couponCode) ==
  IF cart = EmptyCart
    THEN [Answer("apply-coupon", 400) EXCEPT !.couponCode = couponCode]
  ELSE
    LET subtotal     == Subtotal(cart)
        shippingCost == ShippingCost(subtotal)
        couponResult == ActiveCoupons(table, couponCode)
    IN  IF couponCode # NoCode /\ couponResult = {}
          THEN [Answer("apply-coupon", 404) EXCEPT
                  !.cart = cart, !.couponCode = couponCode]
        ELSE
          LET resolved == couponCode # NoCode
              coupon   == CHOOSE c \in couponResult : TRUE
              discount == IF resolved THEN CouponDiscount(coupon, subtotal) ELSE 0
          IN  [Answer("apply-coupon", 200) EXCEPT
                 !.cart = cart, !.couponCode = couponCode,
                 !.subtotal = subtotal, !.shippingCost = shippingCost,
                 !.discount = discount,
                 !.total = subtotal - discount + shippingCost,
                 !.appliedCoupon = IF resolved THEN coupon.code ELSE NoCode]

ApplyCoupon(cart, couponCode) ==
  /\ last' = ApplyCouponOutcome(coupons, cart, couponCode)
  /\ UNCHANGED <<coupons, orders, users, reviews, sent, nextOrderId,
                 nextReviewId, pending, clock>>

-----------------------------------------------------------------------------
(* POST /checkout *)

\* The locals of the handler before the INSERT.
CheckoutPrice(table, cart, couponCode) ==
  LET subtotal     == Subtotal(cart)
      shippingCost == ShippingCost(subtotal)
      couponResult == ActiveCoupons(table, couponCode)
      resolved     == couponCode # NoCode /\ couponResult # {}
      coupon       == CHOOSE c \in couponResult : TRUE
      discount     == IF resolved THEN CouponDiscount(coupon, subtotal) ELSE 0
  IN  [ subtotal |-> subtotal, shippingCost |-> shippingCost,
        discount |-> discount,
        appliedCouponCode |-> IF resolved THEN coupon.code ELSE NoCode,
        totalAmount |-> subtotal - discount + shippingCost ]

\* customer_name, phone_number and address are NOT NULL.
InsertOrderFails(addressDetails) ==
  \/ addressDetails.name = Null
  \/ addressDetails.phone = Null
  \/ addressDetails.address = Null

\* The row INSERT ... RETURNING * gives back.  created_at defaults to the
\* time of the insertion; the serial id counts the insertions and stands for it.
NewOrderRow(id, uid, cart, addressDetails, paymentId, price) ==
  [ id |-> id, created_at |-> id, customer_name |-> addressDetails.name,
    phone_number |-> addressDetails.phone, address |-> addressDetails.address,
    cart_items |-> cart,
    order_amount |-> RoundToPaise(price.totalAmount),
    razorpay_payment_id |-> paymentId, user_uid |-> uid,
    status |-> "Processing",
    coupon_used |-> price.appliedCouponCode,
    discount_amount |-> RoundToPaise(price.discount) ]

\* generateInvoicePdf runs synchronously up to doc.end(); item.price.toFixed(2)
\* throws a TypeError when the price of a line is not a number.
InvoiceThrows(order) ==
  \E key \in DOMAIN order.cart_items : ~order.cart_items[key].priceIsNumber

Email(kind, orderId, to) == [kind |-> kind, order |-> orderId, to |-> to]

Checkout(uid, cart, addressDetails, paymentId, couponCode) ==
  /\ nextOrderId <= MaxOrders
  /\ UNCHANGED <<coupons, users, reviews, nextReviewId, pending, clock>>
  /\ IF cart = EmptyCart \/ ~addressDetails.present \/ paymentId = NoPayment
       THEN /\ last' = [Answer("checkout", 400) EXCEPT
                          !.cart = cart, !.addressDetails = addressDetails,
                          !.paymentId = paymentId, !.couponCode = couponCode]
            /\ UNCHANGED <<orders, sent, nextOrderId>>
     ELSE
       LET price    == CheckoutPrice(coupons, cart, couponCode)
           newOrder == NewOrderRow(nextOrderId, uid, cart, addressDetails,
                                   paymentId, price)
           answer(status, id) ==
             [Answer("checkout", status) EXCEPT
                !.cart = cart, !.addressDetails = addressDetails,
                !.paymentId = paymentId, !.couponCode = couponCode,
                !.subtotal = price.subtotal,
                !.shippingCost = price.shippingCost,
                !.discount = price.discount, !.total = price.totalAmount,
                !.appliedCoupon = price.appliedCouponCode, !.orderId = id]
       IN  IF InsertOrderFails(addressDetails)
             THEN /\ last' = answer(500, 0)
                  /\ UNCHANGED <<orders, sent, nextOrderId>>
           ELSE
             /\ orders' = orders @@ (nextOrderId :> newOrder)
             /\ nextOrderId' = nextOrderId + 1
             /\ IF InvoiceThrows(newOrder)
                  THEN /\ last' = answer(500, nextOrderId)
                       /\ UNCHANGED sent
                ELSE /\ sent' = Append(sent, Email("Confirmation", newOrder.id, uid))
                     /\ Len(sent') <= MaxSent
                     /\ last' = answer(200, nextOrderId)

-----------------------------------------------------------------------------
(* POST /admin/add-coupon *)

AddCoupon(code, discount_type, discount_value) ==
  /\ UNCHANGED <<orders, users, reviews, sent, nextOrderId, nextReviewId,
                 pending, clock>>
  /\ IF \E c \in coupons : c.code = ToUpperCase(code)
       THEN /\ last' = Answer("add-coupon", 500)
            /\ UNCHANGED coupons
     ELSE /\ coupons' = coupons \cup
                          { [ code |-> ToUpperCase(code),
                              discount_type |-> discount_type,
                              discount_value |-> discount_value,
                              is_active |-> TRUE ] }
          /\ last' = Answer("add-coupon", 302)

-----------------------------------------------------------------------------
(* POST /api/user-login and POST /admin/permanent-delete-user/:uid *)

UserLogin(uid) ==
  /\ users' = IF uid \in DOMAIN users THEN users
              ELSE users @@ (uid :> [email |-> uid,
                                     delete_code |-> Null,
                                     delete_code_expires_at |-> NoTime,
                                     deleted_at |-> NoTime,
                                     is_blocked_from_reviewing |-> FALSE])
  /\ last' = Answer("user-login", 200)
  /\ UNCHANGED <<coupons, orders, reviews, sent, nextOrderId, nextReviewId,
                 pending, clock>>

PermanentDeleteUser(uid) ==
  /\ users' = [u \in DOMAIN users \ {uid} |-> users[u]]
  /\ last' = Answer("permanent-delete-user", 302)
  /\ UNCHANGED <<coupons, orders, reviews, sent, nextOrderId, nextReviewId,
                 pending, clock>>

-----------------------------------------------------------------------------
(* POST /admin/update-order-status/:id *)

\* SELECT o.status, o.customer_name, u.email FROM orders o JOIN users u
\*   ON o.user_uid = u.firebase_uid WHERE o.id = $1
OrderInfoRows(id) ==
  IF id \in DOMAIN orders /\ orders[id].user_uid \in DOMAIN users
    THEN { [ status |-> orders[id].status,
             email  |-> users[orders[id].user_uid].email ] }
    ELSE {}

\* A faulty StatusEmails: only a shipment is notified.
StatusEmailsShippedOnly(id, orderInfo, newStatus) ==
  IF newStatus # orderInfo.status /\ newStatus = "Shipped"
    THEN << Email(newStatus, id, orderInfo.email) >>
    ELSE << >>

\* A faulty StatusEmails: no comparison with the previous status.
StatusEmailsEveryTime(id, orderInfo, newStatus) ==
  IF newStatus \in {"Shipped", "Delivered", "Cancelled"}
    THEN << Email(newStatus, id, orderInfo.email) >>
    ELSE << >>

\* The e-mails sent for the change previousStatus -> newStatus.
StatusEmails(id, orderInfo, newStatus) ==
  IF newStatus # orderInfo.status /\ newStatus \in {"Shipped", "Delivered", "Cancelled"}
    THEN << Email(newStatus, id, orderInfo.email) >>
    ELSE << >>

\* A faulty SetStatus: a cancelled order is deleted.
SetStatusRemovingCancelled(id, newStatus) ==
  IF newStatus = "Cancelled"
    THEN [o \in DOMAIN orders \ {id} |-> orders[o]]
    ELSE [o \in DOMAIN orders |->
            IF o = id THEN [orders[o] EXCEPT !.status = newStatus] ELSE orders[o]]

\* A faulty SetStatus: the statement forgets WHERE id = $2.
SetStatusOfEveryOrder(id, newStatus) ==
  [o \in DOMAIN orders |-> [orders[o] EXCEPT !.status = newStatus]]

\* UPDATE orders SET status = $1 WHERE id = $2
SetStatus(id, newStatus) ==
  [o \in DOMAIN orders |->
     IF o = id THEN [orders[o] EXCEPT !.status = newStatus] ELSE orders[o]]

UpdateOrderStatus(id, newStatus) ==
  /\ LET rows == OrderInfoRows(id)
         orderInfo == CHOOSE r \in rows : TRUE
         emails == IF rows # {} THEN StatusEmails(id, orderInfo, newStatus)
                   ELSE << >>
     IN  /\ sent' = sent \o emails
         /\ Len(sent') <= MaxSent
         /\ last' = [Answer("update-order-status", 302) EXCEPT
                       !.orderId = id, !.newStatus = newStatus,
                       !.previousStatus =
                          IF rows # {} THEN orderInfo.status ELSE Null,
                       !.before =
                          IF id \in DOMAIN orders THEN orders[id].status ELSE Null,
                       !.dispatched = emails]
  /\ orders' = SetStatus(id, newStatus)
  /\ UNCHANGED <<coupons, users, reviews, nextOrderId, nextReviewId, pending,
                 clock>>

-----------------------------------------------------------------------------
(* POST /admin/delete-order/:id *)

DeleteOrder(id) ==
  /\ orders' = [o \in DOMAIN orders \ {id} |-> orders[o]]
  /\ last' = [Answer("delete-order", 302) EXCEPT !.orderId = id]
  /\ UNCHANGED <<coupons, users, reviews, sent, nextOrderId, nextReviewId,
                 pending, clock>>

-----------------------------------------------------------------------------
(* POST /admin/update-order-status/:id and POST /checkout, one await at a   *)
(* time.  A request in flight waits in `pending` with the step it takes     *)
(* next, and the mail provider takes or refuses each e-mail.  (In the       *)
(* actions above a handler runs from its first line to its answer and the   *)
(* provider takes every e-mail.)                                            *)

StatusSlots == {"s1", "s2"}

CheckoutSlot == "c1"

\* A faulty SendResult: the sender lets the error of the provider through.
SendResultRethrown(accepted) == IF accepted THEN "resolved" ELSE "rejected"

\* What the handler's await of sendOrderShippedEmail, sendOrderDeliveredEmail
\* or sendOrderCancellationEmail gives: each catches the error of sgMail.send
\* and logs it, so the promise resolves whether the provider took the e-mail
\* or not.
SendResult(accepted) == "resolved"

StatusAnswer(status, r) ==
  [Answer("update-order-status", status) EXCEPT
     !.orderId = r.id, !.newStatus = r.newStatus,
     !.previousStatus = r.previousStatus, !.before = r.before,
     !.dispatched = r.dispatched, !.sendFailed = r.sendFailed]

\* The request arrives and issues its SELECT.
ReceiveStatus(slot, id, newStatus) ==
  /\ slot \notin DOMAIN pending
  /\ pending' = pending @@
       (slot :> [ id |-> id, newStatus |-> newStatus, pc |-> "rows",
                  before |-> IF id \in DOMAIN orders THEN orders[id].status ELSE Null,
                  previousStatus |-> Null, emails |-> << >>,
                  dispatched |-> << >>, sendFailed |-> FALSE ])
  /\ UNCHANGED <<coupons, orders, users, reviews, sent, nextOrderId,
                 nextReviewId, last, clock>>

\* The rows of the SELECT arrive; the handler compares the statuses and calls
\* the sender of the e-mail, if any.
StatusRows(slot) ==
  /\ slot \in DOMAIN pending /\ pending[slot].pc = "rows"
  /\ LET r == pending[slot]
         rows == OrderInfoRows(r.id)
         orderInfo == CHOOSE x \in rows : TRUE
         emails == IF rows # {} THEN StatusEmails(r.id, orderInfo, r.newStatus)
                   ELSE << >>
     IN  pending' = [pending EXCEPT
                       ![slot].previousStatus =
                          IF rows # {} THEN orderInfo.status ELSE Null,
                       ![slot].emails = emails,
                       ![slot].pc = IF emails = << >> THEN "update" ELSE "send"]
  /\ UNCHANGED <<coupons, orders, users, reviews, sent, nextOrderId,
                 nextReviewId, last, clock>>

\* The provider answers the sender; an error the sender let through would end
\* the handler in its catch.
StatusSend(slot, accepted) ==
  /\ slot \in DOMAIN pending /\ pending[slot].pc = "send"
  /\ LET r == pending[slot]
         after == [r EXCEPT !.dispatched = IF accepted THEN r.emails ELSE << >>,
                            !.sendFailed = ~accepted]
     IN  /\ sent' = IF accepted THEN sent \o r.emails ELSE sent
         /\ Len(sent') <= MaxSent
         /\ IF SendResult(accepted) = "rejected"
              THEN /\ pending' = [q \in DOMAIN pending \ {slot} |-> pending[q]]
                   /\ last' = StatusAnswer(500, after)
              ELSE /\ pending' = [pending EXCEPT ![slot] = [after EXCEPT !.pc = "update"]]
                   /\ UNCHANGED last
  /\ UNCHANGED <<coupons, orders, users, reviews, nextOrderId, nextReviewId,
                 clock>>

\* The UPDATE, and the redirect that answers the request.
StatusUpdate(slot) ==
  /\ slot \in DOMAIN pending /\ pending[slot].pc = "update"
  /\ orders' = SetStatus(pending[slot].id, pending[slot].newStatus)
  /\ pending' = [q \in DOMAIN pending \ {slot} |-> pending[q]]
  /\ last' = StatusAnswer(302, pending[slot])
  /\ UNCHANGED <<coupons, users, reviews, sent, nextOrderId, nextReviewId,
                 clock>>

\* The checkout handler up to its answer.  generateInvoicePdf returns once the
\* document is written; its callback runs when the stream of the document
\* ends, after res.json.
CheckoutToAnswer(uid, cart, addressDetails, paymentId, couponCode) ==
  /\ nextOrderId <= MaxOrders
  /\ CheckoutSlot \notin DOMAIN pending
  /\ UNCHANGED <<coupons, users, reviews, sent, nextReviewId, clock>>
  /\ IF cart = EmptyCart \/ ~addressDetails.present \/ paymentId = NoPayment
       THEN /\ last' = [Answer("checkout", 400) EXCEPT
                          !.cart = cart, !.addressDetails = addressDetails,
                          !.paymentId = paymentId, !.couponCode = couponCode]
            /\ UNCHANGED <<orders, nextOrderId, pending>>
     ELSE
       LET price    == CheckoutPrice(coupons, cart, couponCode)
           newOrder == NewOrderRow(nextOrderId, uid, cart, addressDetails,
                                   paymentId, price)
           answer(status, id) ==
             [Answer("checkout", status) EXCEPT
                !.cart = cart, !.addressDetails = addressDetails,
                !.paymentId = paymentId, !.couponCode = couponCode,
                !.subtotal = price.subtotal,
                !.shippingCost = price.shippingCost,
                !.discount = price.discount, !.total = price.totalAmount,
                !.appliedCoupon = price.appliedCouponCode, !.orderId = id]
       IN  IF InsertOrderFails(addressDetails)
             THEN /\ last' = answer(500, 0)
                  /\ UNCHANGED <<orders, nextOrderId, pending>>
           ELSE
             /\ orders' = orders @@ (nextOrderId :> newOrder)
             /\ nextOrderId' = nextOrderId + 1
             /\ IF InvoiceThrows(newOrder)
                  THEN /\ last' = answer(500, nextOrderId)
                       /\ UNCHANGED pending
                ELSE /\ last' = answer(200, nextOrderId)
                     /\ pending' = pending @@
                          (CheckoutSlot :>
                             [ pc |-> "invoiceEnd", answer |-> answer(200, nextOrderId),
                               email |-> Email("Confirmation", newOrder.id, uid) ])

\* The callback of generateInvoicePdf: sendOrderConfirmationEmail, which
\* nothing awaits.
InvoiceEnd(accepted) ==
  /\ CheckoutSlot \in DOMAIN pending
  /\ LET r == pending[CheckoutSlot]
     IN  /\ sent' = IF accepted THEN Append(sent, r.email) ELSE sent
         /\ Len(sent') <= MaxSent
         /\ last' = [r.answer EXCEPT
                       !.dispatched = IF accepted THEN << r.email >> ELSE << >>,
                       !.sendFailed = ~accepted]
  /\ pending' = [q \in DOMAIN pending \ {CheckoutSlot} |-> pending[q]]
  /\ UNCHANGED <<coupons, orders, users, reviews, nextOrderId, nextReviewId,
                 clock>>

-----------------------------------------------------------------------------
(* GET /api/my-orders *)

RECURSIVE NewestFirst(_)
\* ORDER BY created_at DESC
NewestFirst(rows) ==
  IF rows = {} THEN << >>
  ELSE LET newest == CHOOSE r \in rows :
                       \A q \in rows : q.created_at <= r.created_at
       IN  << newest >> \o NewestFirst(rows \ {newest})

\* The columns my-orders selects.
OrderSummary(o) ==
  [ id |-> o.id, order_amount |-> o.order_amount, created_at |-> o.created_at,
    cart_items |-> o.cart_items, status |-> o.status ]

\* A faulty MyOrdersRows: the query forgets WHERE user_uid = $1.
MyOrdersRowsOfEveryone(userUid) ==
  NewestFirst({ OrderSummary(orders[id]) : id \in DOMAIN orders })

\* SELECT id, order_amount, created_at, cart_items, status FROM orders
\*   WHERE user_uid = $1 ORDER BY created_at DESC
MyOrdersRows(userUid) ==
  NewestFirst({ OrderSummary(orders[id]) :
                  id \in { i \in DOMAIN orders : orders[i].user_uid = userUid } })

MyOrders(userUid) ==
  /\ last' = [Answer("my-orders", 200) EXCEPT
                !.uid = userUid, !.rows = MyOrdersRows(userUid)]
  /\ UNCHANGED <<coupons, orders, users, reviews, sent, nextOrderId,
                 nextReviewId, pending, clock>>

-----------------------------------------------------------------------------
(* POST /api/submit-review, POST /admin/delete-review/:id and               *)
(* POST /admin/block-user/:uid                                              *)

\* productName and rating of the bodies of submit-review.  A rating of 0
\* stands for every falsy rating, a missing one included.
ProductNameInputs == {"makhana-plain", "makhana plain", "makhana-roasted"}

RatingInputs == {0, 5, 6}

\* productName.replace(/ /g, '-')
ProductNameWithHyphens(productName) ==
  CASE productName = "makhana plain"   -> "makhana-plain"
    [] productName = "makhana roasted" -> "makhana-roasted"
    [] OTHER                           -> productName

\* productName.replace(/-/g, ' ')
ProductNameWithSpaces(productName) ==
  CASE productName = "makhana-plain"   -> "makhana plain"
    [] productName = "makhana-roasted" -> "makhana roasted"
    [] OTHER                           -> productName

\* SELECT is_blocked_from_reviewing FROM users WHERE firebase_uid = $1:
\* some row, and it is blocked.
BlockedFromReviewing(table, uid) ==
  uid \in DOMAIN table /\ table[uid].is_blocked_from_reviewing

\* A faulty DeliveredOrdersWith: the query forgets status = 'Delivered'.
OrdersWith(table, uid, productName) ==
  { id \in DOMAIN table :
      /\ table[id].user_uid = uid
      /\ \/ ProductNameWithHyphens(productName) \in DOMAIN table[id].cart_items
         \/ ProductNameWithSpaces(productName) \in DOMAIN table[id].cart_items }

\* A faulty DeliveredOrdersWith: the query looks for the hyphenated name only.
DeliveredOrdersWithHyphensOnly(table, uid, productName) ==
  { id \in DOMAIN table :
      /\ table[id].user_uid = uid
      /\ ProductNameWithHyphens(productName) \in DOMAIN table[id].cart_items
      /\ table[id].status = "Delivered" }

\* SELECT id FROM orders WHERE user_uid = $1
\*   AND (cart_items ->> $2 IS NOT NULL OR cart_items ->> $3 IS NOT NULL)
\*   AND status = 'Delivered'
DeliveredOrdersWith(table, uid, productName) ==
  { id \in DOMAIN table :
      /\ table[id].user_uid = uid
      /\ \/ ProductNameWithHyphens(productName) \in DOMAIN table[id].cart_items
         \/ ProductNameWithSpaces(productName) \in DOMAIN table[id].cart_items
      /\ table[id].status = "Delivered" }

\* A faulty ExistingReviews: the query compares with the name as typed only.
ExistingReviewsAsTyped(table, uid, productName) ==
  { id \in DOMAIN table :
      table[id].user_uid = uid /\ table[id].product_name = productName }

\* SELECT id FROM reviews WHERE user_uid = $1
\*   AND (product_name = $2 OR product_name = $3)
ExistingReviews(table, uid, productName) ==
  { id \in DOMAIN table :
      /\ table[id].user_uid = uid
      /\ table[id].product_name \in { ProductNameWithHyphens(productName),
                                      ProductNameWithSpaces(productName) } }

\* rating INTEGER NOT NULL CHECK (rating >= 1 AND rating <= 5)
RatingCheckFails(rating) == ~(rating >= 1 /\ rating <= 5)

NewReviewRow(id, uid, productName, rating) ==
  [ id |-> id, product_name |-> ProductNameWithHyphens(productName),
    user_uid |-> uid, rating |-> rating ]

ReviewAnswer(status, uid, productName, rating) ==
  [Answer("submit-review", status) EXCEPT
     !.uid = uid, !.productName = productName, !.rating = rating]

\* The handler run from its first line to its answer, no other request in
\* between.
SubmitReview(uid, productName, rating) ==
  /\ UNCHANGED <<coupons, orders, users, sent, nextOrderId, pending, clock>>
  /\ IF productName = Null \/ rating = 0
       THEN /\ last' = ReviewAnswer(400, uid, productName, rating)
            /\ UNCHANGED <<reviews, nextReviewId>>
     ELSE IF BlockedFromReviewing(users, uid)
       THEN /\ last' = ReviewAnswer(403, uid, productName, rating)
            /\ UNCHANGED <<reviews, nextReviewId>>
     ELSE IF DeliveredOrdersWith(orders, uid, productName) = {}
       THEN /\ last' = ReviewAnswer(403, uid, productName, rating)
            /\ UNCHANGED <<reviews, nextReviewId>>
     ELSE IF ExistingReviews(reviews, uid, productName) # {}
       THEN /\ last' = ReviewAnswer(409, uid, productName, rating)
            /\ UNCHANGED <<reviews, nextReviewId>>
     ELSE IF RatingCheckFails(rating)
       THEN /\ last' = ReviewAnswer(500, uid, productName, rating)
            /\ UNCHANGED <<reviews, nextReviewId>>
     ELSE /\ nextReviewId <= MaxReviews
          /\ reviews' = reviews @@
                (nextReviewId :> NewReviewRow(nextReviewId, uid, productName, rating))
          /\ nextReviewId' = nextReviewId + 1
          /\ last' = ReviewAnswer(201, uid, productName, rating)

\* The same handler, one query at a time.  Every await of the handler lets
\* the requests of other callers run; a request in flight waits in `pending`
\* with the query it issues next.
ReviewSlots == {"r1", "r2"}

FinishReview(slot, status) ==
  /\ pending' = [r \in DOMAIN pending \ {slot} |-> pending[r]]
  /\ last' = ReviewAnswer(status, pending[slot].uid, pending[slot].productName,
                          pending[slot].rating)

ContinueReview(slot, pc) ==
  /\ pending' = [pending EXCEPT ![slot].pc = pc]
  /\ UNCHANGED last

ReceiveReview(slot, uid, productName, rating) ==
  /\ slot \notin DOMAIN pending
  /\ UNCHANGED <<coupons, orders, users, reviews, sent, nextOrderId,
                 nextReviewId, clock>>
  /\ IF productName = Null \/ rating = 0
       THEN /\ last' = ReviewAnswer(400, uid, productName, rating)
            /\ UNCHANGED pending
       ELSE /\ pending' = pending @@
                  (slot :> [ uid |-> uid, productName |-> productName,
                             rating |-> rating, pc |-> "userResult" ])
            /\ UNCHANGED last

ReviewUserResult(slot) ==
  /\ slot \in DOMAIN pending /\ pending[slot].pc = "userResult"
  /\ UNCHANGED <<coupons, orders, users, reviews, sent, nextOrderId,
                 nextReviewId, clock>>
  /\ IF BlockedFromReviewing(users, pending[slot].uid)
       THEN FinishReview(slot, 403)
       ELSE ContinueReview(slot, "ordersResult")

ReviewOrdersResult(slot) ==
  /\ slot \in DOMAIN pending /\ pending[slot].pc = "ordersResult"
  /\ UNCHANGED <<coupons, orders, users, reviews, sent, nextOrderId,
                 nextReviewId, clock>>
  /\ IF DeliveredOrdersWith(orders, pending[slot].uid, pending[slot].productName) = {}
       THEN FinishReview(slot, 403)
       ELSE ContinueReview(slot, "existingReview")

ReviewExistingReview(slot) ==
  /\ slot \in DOMAIN pending /\ pending[slot].pc = "existingReview"
  /\ UNCHANGED <<coupons, orders, users, reviews, sent, nextOrderId,
                 nextReviewId, clock>>
  /\ IF ExistingReviews(reviews, pending[slot].uid, pending[slot].productName) # {}
       THEN FinishReview(slot, 409)
       ELSE ContinueReview(slot, "insert")

ReviewInsert(slot) ==
  /\ slot \in DOMAIN pending /\ pending[slot].pc = "insert"
  /\ UNCHANGED <<coupons, orders, users, sent, nextOrderId, clock>>
  /\ IF RatingCheckFails(pending[slot].rating)
       THEN /\ FinishReview(slot, 500)
            /\ UNCHANGED <<reviews, nextReviewId>>
       ELSE /\ nextReviewId <= MaxReviews
            /\ reviews' = reviews @@
                  (nextReviewId :> NewReviewRow(nextReviewId, pending[slot].uid,
                                                pending[slot].productName,
                                                pending[slot].rating))
            /\ nextReviewId' = nextReviewId + 1
            /\ FinishReview(slot, 201)

DeleteReview(id) ==
  /\ reviews' = [r \in DOMAIN reviews \ {id} |-> reviews[r]]
  /\ last' = Answer("delete-review", 302)
  /\ UNCHANGED <<coupons, orders, users, sent, nextOrderId, nextReviewId,
                 pending, clock>>

BlockUser(uid) ==
  /\ users' = [u \in DOMAIN users |->
                 IF u = uid
                   THEN [users[u] EXCEPT !.is_blocked_from_reviewing = TRUE]
                   ELSE users[u]]
  /\ last' = Answer("block-user", 302)
  /\ UNCHANGED <<coupons, orders, reviews, sent, nextOrderId, nextReviewId,
                 pending, clock>>

-----------------------------------------------------------------------------
(* POST /api/request-deletion-code and POST /api/verify-deletion *)

\* The time between two readings of the clock, and the 10 * 60 * 1000 ms a
\* code stays valid.
TickMs == 5 * 60 * 1000

CodeLifetimeMs == 10 * 60 * 1000

Tick ==
  /\ clock < MaxClock * TickMs
  /\ clock' = clock + TickMs
  /\ UNCHANGED <<coupons, orders, users, reviews, sent, nextOrderId,
                 nextReviewId, pending, last>>

\* The e-mail of sendDeletionCodeEmail, with the time the provider took it.
DeletionEmail(code, to) ==
  [kind |-> "DeletionCode", code |-> code, to |-> to, at |-> clock]

RequestDeletionCode(uid, code) ==
  /\ users' = [u \in DOMAIN users |->
                 IF u = uid
                   THEN [users[u] EXCEPT
                           !.delete_code = code,
                           !.delete_code_expires_at = clock + CodeLifetimeMs]
                   ELSE users[u]]
  /\ sent' = Append(sent, DeletionEmail(code, uid))
  /\ Len(sent') <= MaxSent
  /\ last' = [Answer("request-deletion-code", 200) EXCEPT
                !.uid = uid, !.code = code]
  /\ UNCHANGED <<coupons, orders, reviews, nextOrderId, nextReviewId, pending,
                 clock>>

\* A faulty CodeExpired: the code never expires.
CodeExpiredNever(now, expiresAt) == FALSE

\* now > user.delete_code_expires_at
CodeExpired(now, expiresAt) == now > expiresAt

\* authDeletes: whether admin.auth().deleteUser(uid) succeeds.
VerifyDeletion(uid, code, authDeletes) ==
  /\ UNCHANGED <<coupons, orders, reviews, sent, nextOrderId, nextReviewId,
                 pending, clock>>
  /\ LET answer(status) ==
           [Answer("verify-deletion", status) EXCEPT !.uid = uid, !.code = code]
     IN  IF code = NoDeletionCode
           THEN /\ last' = answer(400)
                /\ UNCHANGED users
         ELSE IF uid \notin DOMAIN users
           THEN /\ last' = answer(404)
                /\ UNCHANGED users
         ELSE IF users[uid].delete_code # code
           THEN /\ last' = answer(400)
                /\ UNCHANGED users
         ELSE IF CodeExpired(clock, users[uid].delete_code_expires_at)
           THEN /\ last' = answer(400)
                /\ UNCHANGED users
         ELSE /\ users' = [users EXCEPT ![uid].deleted_at = clock]
              /\ last' = answer(IF authDeletes THEN 200 ELSE 500)

-----------------------------------------------------------------------------
(* Specifications *)

\* A coupon an administrator deactivated in the store (no route of the server
\* sets is_active; the column defaults to TRUE).
InactiveCoupon ==
  [ code |-> <<"B", "A">>, discount_type |-> "fixed", discount_value |-> 4000,
    is_active |-> FALSE ]

\* The bodies of the checkout requests of the lifecycle specification: a
\* complete one, with and without a coupon code, and one for each way of
\* leaving something out.
LifecycleCheckouts ==
  UNION { { <<cart, CompleteAddress, "pay_1", NoCode>>,
            <<cart, CompleteAddress, "pay_1", <<"b", "a">> >>,
            <<cart, [CompleteAddress EXCEPT !.name = Null], "pay_1", NoCode>>,
            <<cart, NoAddress, "pay_1", NoCode>>,
            <<cart, CompleteAddress, NoPayment, NoCode>>,
            <<EmptyCart, CompleteAddress, "pay_1", NoCode>> } :
          cart \in SmallCarts }

Init ==
  /\ coupons = {}
  /\ orders = << >>
  /\ users = << >>
  /\ reviews = << >>
  /\ sent = << >>
  /\ nextOrderId = 1
  /\ nextReviewId = 1
  /\ pending = << >>
  /\ last = NoRequest
  /\ clock = 0

\* The order lifecycle: checkouts, status changes and deletions, with the
\* accounts of the customers coming and going.
Next ==
  \/ \E uid \in Uids : UserLogin(uid)
  \/ \E uid \in Uids : PermanentDeleteUser(uid)
  \/ \E uid \in Uids, body \in LifecycleCheckouts :
       Checkout(uid, body[1], body[2], body[3], body[4])
  \/ \E uid \in Uids : MyOrders(uid)
  \/ \E id \in OrderIds, newStatus \in NewStatusInputs :
       UpdateOrderStatus(id, newStatus)
  \/ \E id \in OrderIds : DeleteOrder(id)

Spec == Init /\ [][Next]_vars

\* Pricing: the coupons table is stocked through add-coupon, then one request
\* is priced, over the whole range of carts, codes and coupon rules.
Unpriced == last.op \in {"none", "add-coupon"}

StockCoupon ==
  /\ Unpriced
  /\ \E code \in NewCodeInputs, rule \in CouponRules :
       AddCoupon(code, rule[1], rule[2])

Quote ==
  /\ Unpriced
  /\ \E cart \in Carts \cup {EmptyCart}, couponCode \in CodeInputs \cup {NoCode} :
       ApplyCoupon(cart, couponCode)

Commit ==
  /\ Unpriced
  /\ \E cart \in Carts \cup {EmptyCart}, addressDetails \in AddressInputs,
        paymentId \in PaymentInputs, couponCode \in CodeInputs \cup {NoCode} :
       Checkout("u1", cart, addressDetails, paymentId, couponCode)

InitPricing ==
  /\ Init!2 /\ Init!3 /\ Init!4 /\ Init!5 /\ Init!6 /\ Init!7 /\ Init!8 /\ Init!9
  /\ Init!10
  /\ coupons \in { {}, {InactiveCoupon} }

NextPricing == StockCoupon \/ Quote \/ Commit

SpecPricing == InitPricing /\ [][NextPricing]_vars

\* Reviews: customers order, the orders are delivered, and the customers
\* submit reviews, one request at a time.
ReviewIds == 1..MaxReviews

PlaceOrder ==
  \E uid \in Uids, cart \in SmallCarts :
    Checkout(uid, cart, CompleteAddress, "pay_1", NoCode)

Deliver == \E id \in OrderIds : UpdateOrderStatus(id, "Delivered")

\* The carts of the orders that get reviewed: one client names its products
\* with hyphens, the other with spaces.
SpacedCart == [n \in {"makhana roasted"} |-> Line(20000, TRUE, 2)]

PlaceReviewedOrder ==
  \/ \E cart \in SmallCarts : Checkout("u1", cart, CompleteAddress, "pay_1", NoCode)
  \/ Checkout("u2", SpacedCart, CompleteAddress, "pay_1", NoCode)

NextReviews ==
  \/ \E uid \in Uids : UserLogin(uid)
  \/ \E uid \in Uids : BlockUser(uid)
  \/ PlaceReviewedOrder
  \/ Deliver
  \/ \E uid \in Uids, productName \in ProductNameInputs, rating \in RatingInputs :
       SubmitReview(uid, productName, rating)
  \/ \E id \in ReviewIds : DeleteReview(id)

SpecReviews == Init /\ [][NextReviews]_vars

\* Reviews submitted concurrently: up to two submit-review requests in
\* flight, their queries interleaved with each other and with the other
\* requests.
RaceReviews ==
  { <<"u1", "makhana-plain", 5>>, <<"u1", "makhana plain", 5>>,
    <<"u2", "makhana-plain", 6>>, <<"u2", "makhana-plain", 0>> }

NextReviewRace ==
  \/ UserLogin("u1")
  \/ BlockUser("u1")
  \/ PlaceOrder
  \/ Deliver
  \/ \E slot \in ReviewSlots, body \in RaceReviews :
       ReceiveReview(slot, body[1], body[2], body[3])
  \/ \E slot \in ReviewSlots : ReviewUserResult(slot)
  \/ \E slot \in ReviewSlots : ReviewOrdersResult(slot)
  \/ \E slot \in ReviewSlots : ReviewExistingReview(slot)
  \/ \E slot \in ReviewSlots : ReviewInsert(slot)

SpecReviewRace == Init /\ [][NextReviewRace]_vars

\* Orders under concurrent requests: a checkout with its invoice callback and
\* up to two update-order-status requests in flight, their awaits
\* interleaved.  The requests contend for the first order of the store.
RaceOrderIds == {1}

RaceStatuses == {"Shipped", "Cancelled"}

\* The carts of the checkout: one whose invoice is rendered, and one whose
\* invoice throws.
RaceCarts ==
  [{"makhana-plain"} -> {Line(20000, TRUE, 2), Line(20000, FALSE, 2)}]

RaceCheckout ==
  /\ orders = << >>
  /\ \E cart \in RaceCarts :
       CheckoutToAnswer("u1", cart, CompleteAddress, "pay_1", NoCode)

NextOrderRace ==
  \/ UserLogin("u1")
  \/ RaceCheckout
  \/ \E accepted \in BOOLEAN : InvoiceEnd(accepted)
  \/ \E slot \in StatusSlots, id \in RaceOrderIds, newStatus \in RaceStatuses :
       ReceiveStatus(slot, id, newStatus)
  \/ \E slot \in StatusSlots : StatusRows(slot)
  \/ \E slot \in StatusSlots, accepted \in BOOLEAN : StatusSend(slot, accepted)
  \/ \E slot \in StatusSlots : StatusUpdate(slot)

SpecOrderRace == Init /\ [][NextOrderRace]_vars

\* Account deletion by code: customers ask for codes and submit codes while
\* time passes.
NextDeletion ==
  \/ \E uid \in Uids : UserLogin(uid)
  \/ \E uid \in Uids, code \in DeletionCodes : RequestDeletionCode(uid, code)
  \/ \E code \in DeletionCodes \cup {NoDeletionCode}, authDeletes \in BOOLEAN :
       VerifyDeletion("u1", code, authDeletes)
  \/ Tick

SpecDeletion == Init /\ [][NextDeletion]_vars

-----------------------------------------------------------------------------
(* Properties.  The definitions below state the claims; they read the      *)
(* request record `last` and the tables, and compute what the claims say   *)
(* on their own.                                                           *)

RECURSIVE ValueOfLines(_, _)
ValueOfLines(cart, names) ==
  IF names = {} THEN 0
  ELSE LET n == CHOOSE x \in names : TRUE
       IN  ValueOfLines(cart, names \ {n})
             + (IF n \in DOMAIN cart
                  THEN cart[n].price * cart[n].quantity * Paise ELSE 0)

\* Sum of price x quantity over the lines of a cart.
CartValue(cart) == ValueOfLines(cart, Products \cup {SubscriptionProduct})

\* The request handled last computed a price (apply-coupon answered 200, or
\* checkout went past its validation).
Priced ==
  /\ last.op \in {"apply-coupon", "checkout"}
  /\ last.status \in {200, 500}

FoldCase(c) ==
  CASE c = "A" -> "a"
    [] c = "B" -> "b"
    [] OTHER   -> c

SameIgnoringCase(a, b) ==
  /\ Len(a) = Len(b)
  /\ \A i \in 1..Len(a) : FoldCase(a[i]) = FoldCase(b[i])

\* Some active coupon of the table has this code, case apart.
Resolvable(couponCode) ==
  \E c \in coupons : c.is_active /\ SameIgnoringCase(c.code, couponCode)

\* The amount a coupon rule gives on a subtotal, before any clamping.
RuleAmount(c, subtotal) ==
  IF c.discount_type = "percentage"
    THEN (subtotal \div (100 * 100)) * c.discount_value
    ELSE c.discount_value * (100 * 100)

ScenarioCart == [n \in {"makhana-plain"} |-> Line(20000, TRUE, 2)]

ShippedEmailsOf(id) ==
  { i \in DOMAIN sent : sent[i].kind = "Shipped" /\ sent[i].order = id }

\* C1: every priced non-empty cart has subtotal = sum of price x quantity, and
\* shipping 0 when that subtotal is >= 500 and 99 when it is < 500.
C1_ShippingByThreshold ==
  Priced =>
    LET v == CartValue(last.cart)
    IN  /\ last.subtotal = v
        /\ v >= 500 * Rupee => last.shippingCost = 0
        /\ v < 500 * Rupee => last.shippingCost = 99 * Rupee

C1_Witness ==
  /\ last.op = "checkout" /\ last.status = 200
  /\ last.subtotal = 500 * Rupee /\ last.shippingCost = 0

\* C2: with an active coupon resolved, 0 <= discount <= subtotal and
\* total = subtotal - discount + shipping >= shipping.
C2_DiscountWithinSubtotal ==
  (Priced /\ last.appliedCoupon # NoCode) =>
    /\ 0 <= last.discount
    /\ last.discount <= last.subtotal
    /\ last.total = last.subtotal - last.discount + last.shippingCost
    /\ last.total >= last.shippingCost

\* C3: the discount is 0 without a coupon code; with a resolved coupon it is
\* subtotal x value / 100 (percentage) or value (fixed), clamped to the
\* subtotal.  The cart {price 200, quantity 2} gives subtotal 400, shipping 99,
\* total 499 without a coupon, and discount 40, total 459 with 10 percent.
C3_DiscountRule ==
  Priced =>
    /\ last.couponCode = NoCode => last.discount = 0
    /\ last.appliedCoupon # NoCode =>
         \E c \in coupons :
           /\ c.code = last.appliedCoupon
           /\ last.discount = Min(last.subtotal, RuleAmount(c, last.subtotal))
           /\ (last.cart = ScenarioCart /\ c.discount_type = "percentage"
                 /\ c.discount_value = 1000)
                => (last.discount = 40 * Rupee /\ last.total = 459 * Rupee)
    /\ last.cart = ScenarioCart =>
         /\ last.subtotal = 400 * Rupee
         /\ last.shippingCost = 99 * Rupee
         /\ last.couponCode = NoCode => last.total = 499 * Rupee

C3_Witness ==
  /\ last.op = "apply-coupon" /\ last.status = 200
  /\ last.cart = ScenarioCart
  /\ last.discount = 40 * Rupee /\ last.total = 459 * Rupee

\* C4: a checkout that commits an order computed what apply-coupon answers for
\* the same cart and code on the same coupons table, and the amounts stored on
\* the order are the amounts of that quote.
C4_QuoteEqualsCommit ==
  (last.op = "checkout" /\ last.status = 200) =>
    LET quote == ApplyCouponOutcome(coupons, last.cart, last.couponCode)
        order == orders[last.orderId]
    IN  /\ quote.status = 200
        /\ quote.subtotal = last.subtotal
        /\ quote.discount = last.discount
        /\ quote.shippingCost = last.shippingCost
        /\ quote.total = last.total
        /\ order.order_amount * Paise = quote.total
        /\ order.discount_amount * Paise = quote.discount

\* C5: apply-coupon with a non-empty cart and a code that no active coupon
\* carries answers 404 without any priced amount, whether the code is unknown
\* or belongs to a deactivated coupon.
C5_UnresolvedCodeNotFound ==
  (/\ last.op = "apply-coupon" /\ last.cart # EmptyCart
   /\ last.couponCode # NoCode /\ ~Resolvable(last.couponCode)) =>
    /\ last.status = 404
    /\ last.subtotal = 0 /\ last.shippingCost = 0
    /\ last.discount = 0 /\ last.total = 0
    /\ last.appliedCoupon = NoCode

C5_Witness ==
  /\ last.op = "apply-coupon" /\ last.status = 404
  /\ \E c \in coupons :
       ~c.is_active /\ SameIgnoringCase(c.code, last.couponCode)

\* C6: a checkout whose coupon code no active coupon carries is rejected and
\* persists no order.
C6_CheckoutRejectsUnresolvedCode ==
  (/\ last.op = "checkout" /\ last.cart # EmptyCart
   /\ last.couponCode # NoCode /\ ~Resolvable(last.couponCode)) =>
    /\ last.status # 200
    /\ orders = << >>

\* C7: a code resolves to the active coupon stored under it whatever the case
\* of its letters, in apply-coupon and in every checkout that passes the
\* validation of its body, and the table holds at most one coupon per code,
\* case apart.
C7_CaseInsensitiveLookup ==
  /\ \A c1, c2 \in coupons : SameIgnoringCase(c1.code, c2.code) => c1 = c2
  /\ (/\ last.op \in {"apply-coupon", "checkout"} /\ last.status # 400
      /\ last.couponCode # NoCode) =>
       \A c \in coupons :
         (c.is_active /\ SameIgnoringCase(c.code, last.couponCode)) =>
           (last.appliedCoupon = c.code /\ last.status # 404)

C7_Witness ==
  /\ last.op = "checkout" /\ last.status = 200
  /\ last.couponCode = <<"a", "b">>
  /\ last.appliedCoupon = <<"A", "B">>

\* C8: a checkout answering 200 has created exactly one order row, owned by
\* the caller and in status Processing; one answering 400 or 500 has created
\* none (the store held no order before the request).
C8_OneRowPerSuccessfulCheckout ==
  last.op = "checkout" =>
    /\ last.status = 200 =>
         /\ DOMAIN orders = {last.orderId}
         /\ orders[last.orderId].user_uid = "u1"
         /\ orders[last.orderId].status = "Processing"
    /\ last.status \in {400, 500} => orders = << >>

\* C9: update-order-status for an order id that is not in the store answers
\* not-found, and sends nothing.
C9_UnknownOrderNotFound ==
  (last.op = "update-order-status" /\ last.before = Null) =>
    /\ last.status = 404
    /\ last.dispatched = << >>
    /\ last.orderId \notin DOMAIN orders

\* C10 as claimed: setting an order to the status it has sends nothing and
\* leaves the status; setting a Processing order to Shipped sends exactly one
\* shipped e-mail.
C10_ExactlyOneShippedEmail ==
  (last.op = "update-order-status" /\ last.before # Null) =>
    /\ last.newStatus = last.before =>
         /\ last.dispatched = << >>
         /\ orders[last.orderId].status = last.before
    /\ (last.before = "Processing" /\ last.newStatus = "Shipped") =>
         /\ Len(last.dispatched) = 1
         /\ last.dispatched[1].kind = "Shipped"
         /\ last.dispatched[1].order = last.orderId

\* C10 as amended: setting an order to the status it has sends nothing and
\* leaves the status; setting a Processing order to Shipped sends exactly one
\* shipped e-mail when the order's owner has a row in users, and none
\* otherwise.
C10_OneShippedEmailIfOwnerKnown ==
  (last.op = "update-order-status" /\ last.before # Null) =>
    /\ last.newStatus = last.before =>
         /\ last.dispatched = << >>
         /\ orders[last.orderId].status = last.before
    /\ (last.before = "Processing" /\ last.newStatus = "Shipped") =>
         LET owner == orders[last.orderId].user_uid
         IN  IF owner \in DOMAIN users
               THEN last.dispatched =
                      << Email("Shipped", last.orderId, users[owner].email) >>
               ELSE last.dispatched = << >>

C10_Witness ==
  /\ last.op = "update-order-status"
  /\ last.before = "Shipped" /\ last.newStatus = "Shipped"
  /\ last.dispatched = << >>
  /\ Cardinality(ShippedEmailsOf(last.orderId)) = 1

\* C11 as claimed: a status change of an existing order to another status
\* sends exactly one e-mail, of the kind of the new status (Shipped, Delivered,
\* Cancelled), and none when the new status is Processing.
C11_OneMatchingNotification ==
  (/\ last.op = "update-order-status" /\ last.before # Null
   /\ last.newStatus # last.before) =>
    /\ last.newStatus \in {"Shipped", "Delivered", "Cancelled"} =>
         /\ Len(last.dispatched) = 1
         /\ last.dispatched[1].kind = last.newStatus
         /\ last.dispatched[1].order = last.orderId
    /\ last.newStatus = "Processing" => last.dispatched = << >>

\* C11 as amended: such a change sends exactly one e-mail of the kind of the
\* new status to the order's owner when the owner has a row in users, and
\* none when the owner has no row or the new status is Processing.
C11_OneMatchingNotificationIfOwnerKnown ==
  (/\ last.op = "update-order-status" /\ last.before # Null
   /\ last.newStatus # last.before) =>
    LET owner == orders[last.orderId].user_uid
    IN  /\ (/\ last.newStatus \in {"Shipped", "Delivered", "Cancelled"}
             /\ owner \in DOMAIN users) =>
              /\ Len(last.dispatched) = 1
              /\ last.dispatched[1].kind = last.newStatus
              /\ last.dispatched[1].order = last.orderId
              /\ last.dispatched[1].to = users[owner].email
        /\ (last.newStatus = "Processing" \/ owner \notin DOMAIN users) =>
              last.dispatched = << >>

C11_Witness ==
  /\ last.op = "update-order-status"
  /\ last.before = "Processing" /\ last.newStatus = "Delivered"
  /\ Len(last.dispatched) = 1 /\ last.dispatched[1].kind = "Delivered"

\* C12: an order in Delivered or Cancelled keeps its status whatever
\* update-order-status asks, and the only changes of status are
\* Processing -> Shipped, Shipped -> Delivered, Processing -> Cancelled and
\* Shipped -> Cancelled.
C12_TerminalStatuses ==
  (last.op = "update-order-status" /\ last.before # Null) =>
    LET now == orders[last.orderId].status
    IN  /\ last.before \in {"Delivered", "Cancelled"} => now = last.before
        /\ now # last.before =>
              <<last.before, now>> \in
                { <<"Processing", "Shipped">>, <<"Shipped", "Delivered">>,
                  <<"Processing", "Cancelled">>, <<"Shipped", "Cancelled">> }

\* The hyphenated form of a product name, the form in which the two spellings
\* of one product agree.
Hyphenated(name) ==
  CASE name = "makhana plain"   -> "makhana-plain"
    [] name = "makhana roasted" -> "makhana-roasted"
    [] OTHER                    -> name

\* The user owns a Delivered order whose cart snapshot holds the product.
HasDeliveredOrderOf(uid, product) ==
  \E o \in DOMAIN orders :
    /\ orders[o].user_uid = uid
    /\ orders[o].status = "Delivered"
    /\ \E key \in DOMAIN orders[o].cart_items : Hyphenated(key) = Hyphenated(product)

ReviewsOf(table, uid, product) ==
  { r \in DOMAIN table :
      /\ table[r].user_uid = uid
      /\ Hyphenated(table[r].product_name) = Hyphenated(product) }

\* The space-separated form of a product name.
Spaced(name) ==
  CASE name = "makhana-plain"   -> "makhana plain"
    [] name = "makhana-roasted" -> "makhana roasted"
    [] OTHER                    -> name

IsBlocked(uid) ==
  uid \in DOMAIN users /\ users[uid].is_blocked_from_reviewing

\* C13: a step stores a review only as the accepted answer of a submit-review
\* of a user who, before the step, was not blocked, owned a Delivered order
\* holding the product and had no review of it; a submit-review that is
\* rejected leaves the reviews table as it was.
C13_ReviewOnlyIfEligible ==
  [][ /\ \A r \in DOMAIN reviews' \ DOMAIN reviews :
           /\ last'.op = "submit-review" /\ last'.status = 201
           /\ reviews'[r].user_uid = last'.uid
           /\ Hyphenated(reviews'[r].product_name) = Hyphenated(last'.productName)
           /\ ~IsBlocked(last'.uid)
           /\ HasDeliveredOrderOf(last'.uid, last'.productName)
           /\ ReviewsOf(reviews, last'.uid, last'.productName) = {}
      /\ (last'.op = "submit-review" /\ last'.status # 201) => reviews' = reviews
    ]_vars

C13_Witness ==
  /\ last.op = "submit-review" /\ last.status = 201
  /\ ReviewsOf(reviews, last.uid, last.productName) # {}
  /\ \E o \in DOMAIN orders : orders[o].user_uid # last.uid

\* C14: for a user who is not blocked and a submission with a rating in 1..5,
\* the submission is rejected (403) while the user has no Delivered order
\* holding the product; once the user has one, it is accepted (201) when the
\* user has no review of the product yet, and fails with 409 when the user
\* has one already.
C14_EligibleOnceDelivered ==
  (/\ last.op = "submit-review" /\ last.rating \in 1..5
   /\ ~IsBlocked(last.uid)) =>
    LET mine == ReviewsOf(reviews, last.uid, last.productName)
    IN  IF HasDeliveredOrderOf(last.uid, last.productName)
          THEN \/ last.status = 201 /\ Cardinality(mine) = 1
               \/ last.status = 409 /\ mine # {}
          ELSE last.status = 403

C14_Witness ==
  /\ last.op = "submit-review" /\ last.status = 409
  /\ HasDeliveredOrderOf(last.uid, last.productName)
  /\ last.productName = "makhana plain"

\* C16: a submit-review whose rating is outside 1..5 is answered with a 4xx
\* status, and no review with such a rating is stored.
C16_BadRatingIsValidationError ==
  /\ (last.op = "submit-review" /\ ~(last.rating \in 1..5)) =>
       (last.status >= 400 /\ last.status <= 499)
  /\ \A r \in DOMAIN reviews : reviews[r].rating \in 1..5

\* C15: the reviews table never holds two reviews of one user for one
\* product, also when submit-review requests of that user run concurrently.
C15_OneReviewPerUserAndProduct ==
  \A r1, r2 \in DOMAIN reviews :
    (/\ reviews[r1].user_uid = reviews[r2].user_uid
     /\ Hyphenated(reviews[r1].product_name) = Hyphenated(reviews[r2].product_name))
      => r1 = r2

\* C17: my-orders answers exactly the orders whose user_uid is the caller's
\* uid, each once, the newest first.
C17_MyOrdersAreTheCallersOrders ==
  last.op = "my-orders" =>
    /\ { last.rows[i].id : i \in DOMAIN last.rows } =
         { o \in DOMAIN orders : orders[o].user_uid = last.uid }
    /\ \A i, j \in DOMAIN last.rows :
         i < j => last.rows[i].created_at > last.rows[j].created_at
    /\ \A i \in DOMAIN last.rows :
         LET o == orders[last.rows[i].id]
         IN  /\ last.rows[i].order_amount = o.order_amount
             /\ last.rows[i].created_at = o.created_at
             /\ last.rows[i].cart_items = o.cart_items
             /\ last.rows[i].status = o.status

C17_Witness ==
  /\ last.op = "my-orders" /\ Len(last.rows) = 1
  /\ \E o \in DOMAIN orders : orders[o].user_uid # last.uid
  /\ last.rows[1].status = "Shipped"

\* C18: a checkout whose body lacks the cart, the address details (or their
\* name, phone or address) or the payment id, or whose cart is empty, answers
\* 400, persists no order and sends no e-mail.
C18_MissingFieldIs400 ==
  (/\ last.op = "checkout"
   /\ \/ last.cart = EmptyCart
      \/ ~last.addressDetails.present
      \/ last.addressDetails.name = Null
      \/ last.addressDetails.phone = Null
      \/ last.addressDetails.address = Null
      \/ last.paymentId = NoPayment) =>
    /\ last.status = 400
    /\ orders = << >>
    /\ sent = << >>

\* C19: apply-coupon and checkout answer an invalid-cart error (400) for an
\* empty cart and for a cart with a line whose quantity or price is not
\* positive, and no order is persisted from such a cart.
C19_InvalidCartRejected ==
  (/\ last.op \in {"apply-coupon", "checkout"}
   /\ \/ last.cart = EmptyCart
      \/ \E n \in DOMAIN last.cart :
           last.cart[n].quantity <= 0 \/ last.cart[n].price <= 0) =>
    /\ last.status = 400
    /\ orders = << >>

\* C20: a cart whose only line is a subscription product is priced with
\* shipping 0 whatever its subtotal, in the quote and in the order committed.
C20_LoneSubscriptionShipsFree ==
  (Priced /\ DOMAIN last.cart = {SubscriptionProduct}) =>
    /\ last.shippingCost = 0
    /\ last.total = last.subtotal - last.discount
    /\ (last.op = "checkout" /\ last.status = 200) =>
         orders[last.orderId].order_amount = RoundToPaise(last.subtotal - last.discount)

\* C21: a refused e-mail never fails the request nor undoes its write: an
\* update-order-status whose notification the provider refused has stored
\* the new status and answered with its redirect, and a checkout whose
\* confirmation the provider refused has answered 200 and its order is in
\* the store.
C21_RefusedEmailKeepsTheWrite ==
  last.sendFailed =>
    /\ last.dispatched = << >>
    /\ last.orderId \in DOMAIN orders
    /\ last.op = "update-order-status" =>
         /\ last.status = 302
         /\ orders[last.orderId].status = last.newStatus
    /\ last.op = "checkout" =>
         /\ last.status = 200
         /\ orders[last.orderId].cart_items = last.cart

C21_Witness ==
  /\ last.sendFailed
  /\ last.op = "update-order-status" /\ last.newStatus = "Shipped"
  /\ last.previousStatus = "Processing"
  /\ orders[last.orderId].status = "Shipped"
  /\ sent = << >>

\* C22: of two update-order-status requests in flight together that both
\* arrived while the order was Processing and both ask for Shipped, at most
\* one dispatches a shipped e-mail: the other one reads the status the first
\* one wrote.
C22_ShippedRequestsSerialized ==
  \A s, t \in DOMAIN pending \cap StatusSlots :
    (/\ s # t /\ pending[s].id = pending[t].id
     /\ pending[s].newStatus = "Shipped" /\ pending[t].newStatus = "Shipped"
     /\ pending[s].before = "Processing" /\ pending[t].before = "Processing") =>
      /\ Len(pending[s].dispatched) + Len(pending[t].dispatched) <= 1
      /\ Cardinality(ShippedEmailsOf(pending[s].id)) <= 1

\* C23: the update precedes the notification: when a step dispatches a
\* shipped, delivered or cancelled e-mail for an order, the store holds that
\* order with the status the e-mail announces.
C23_UpdateBeforeNotification ==
  [][ \A i \in DOMAIN sent' \ DOMAIN sent :
        sent'[i].kind # "Confirmation" =>
          /\ sent'[i].order \in DOMAIN orders'
          /\ orders'[sent'[i].order].status = sent'[i].kind
    ]_vars

\* C24: in the sequence of the e-mails dispatched, every shipped, delivered
\* or cancelled e-mail of an order comes after the confirmation e-mail of
\* that order.
C24_ConfirmationFirst ==
  \A i \in DOMAIN sent :
    sent[i].kind # "Confirmation" =>
      \E j \in 1..(i - 1) :
        sent[j].kind = "Confirmation" /\ sent[j].order = sent[i].order

C26_OnlyTheStatusChanges ==
  [][ last'.op = "update-order-status" =>
        /\ DOMAIN orders' = DOMAIN orders
        /\ \A o \in DOMAIN orders :
             /\ o # last'.orderId => orders'[o] = orders[o]
             /\ orders'[o].id = orders[o].id
             /\ orders'[o].user_uid = orders[o].user_uid
             /\ orders'[o].cart_items = orders[o].cart_items
             /\ orders'[o].order_amount = orders[o].order_amount
             /\ orders'[o].discount_amount = orders[o].discount_amount
             /\ orders'[o].coupon_used = orders[o].coupon_used
             /\ orders'[o].razorpay_payment_id = orders[o].razorpay_payment_id
             /\ orders'[o].customer_name = orders[o].customer_name
             /\ orders'[o].phone_number = orders[o].phone_number
             /\ orders'[o].address = orders[o].address
             /\ orders'[o].created_at = orders[o].created_at
    ]_vars

C26_Witness ==
  /\ last.op = "update-order-status"
  /\ last.before = "Processing" /\ last.newStatus = "Delivered"
  /\ \E o \in DOMAIN orders :
       /\ o # last.orderId
       /\ orders[o].status = "Shipped"
       /\ orders[o].user_uid # orders[last.orderId].user_uid
  /\ orders[last.orderId].status = "Delivered"

\* C27: the review gate takes the product under both forms of its name: a
\* submission of a user who is not blocked passes the gate when a Delivered
\* order of the user has a cart key equal to the hyphenated or to the
\* space-separated form of the submitted name; and the two forms count as one
\* product for the reviews of a user: an accepted review is the user's only
\* one under either form, and a 409 is answered when one exists under either.
C27_BothFormsMatch ==
  (last.op = "submit-review" /\ last.status # 400 /\ ~IsBlocked(last.uid)) =>
    LET forms == { Hyphenated(last.productName), Spaced(last.productName) }
        mine  == { r \in DOMAIN reviews :
                     /\ reviews[r].user_uid = last.uid
                     /\ reviews[r].product_name \in forms }
    IN  /\ (\E o \in DOMAIN orders :
              /\ orders[o].user_uid = last.uid
              /\ orders[o].status = "Delivered"
              /\ DOMAIN orders[o].cart_items \cap forms # {})
             => last.status \in {201, 409, 500}
        /\ last.status = 201 => Cardinality(mine) = 1
        /\ last.status = 409 => mine # {}

C27_Witness ==
  /\ last.op = "submit-review" /\ last.status = 201
  /\ last.productName = "makhana-roasted"
  /\ \E o \in DOMAIN orders :
       /\ orders[o].user_uid = last.uid
       /\ orders[o].status = "Delivered"
       /\ DOMAIN orders[o].cart_items = {"makhana roasted"}
  /\ \E r \in DOMAIN reviews :
       reviews[r].user_uid = last.uid /\ reviews[r].product_name = "makhana-roasted"

\* C28: every order in the store has one of the statuses Processing, Shipped,
\* Delivered and Cancelled, whatever newStatus the update-order-status
\* requests carried.
C28_StatusIsOneOfFour ==
  \A o \in DOMAIN orders :
    orders[o].status \in {"Processing", "Shipped", "Delivered", "Cancelled"}

\* C29: every order in the store has order_amount = subtotal of its cart
\* snapshot - discount_amount + shipping with a shipping of 0 or 99, so that
\* the shipping the invoice derives, order_amount - (subtotal -
\* discount_amount), is the shipping charged at checkout; and coupon_used is
\* null exactly when no coupon resolved at checkout, and then discount_amount
\* is 0.  Amounts of the row are in paise.
C29_StoredAmountsAddUp ==
  \A o \in DOMAIN orders :
    LET row == orders[o]
        subtotal == CartValue(row.cart_items) \div (100 * 100)
        invoiceShipping == row.order_amount - (subtotal - row.discount_amount)
    IN  /\ invoiceShipping \in {0, 99 * 100}
        /\ row.coupon_used = NoCode => row.discount_amount = 0
        /\ (last.op = "checkout" /\ last.orderId = o) =>
             /\ invoiceShipping * (100 * 100) = last.shippingCost
             /\ row.coupon_used = NoCode <=>
                  ~(last.couponCode # NoCode /\ Resolvable(last.couponCode))

\* C30: verify-deletion marks the caller's row as deleted (answering 200, or
\* 500 when the account of the sign-in service could not be removed) only if
\* the submitted code is the one request-deletion-code issued to the caller
\* last and no more than 10 minutes have passed since; with a missing, wrong,
\* superseded or expired code, or with no code ever requested, it answers 400
\* or 404 and leaves the users table as it was.  No other row is touched.
C30_DeletionOnlyByValidCode ==
  [][ (last'.op = "verify-deletion" /\ clock' = clock) =>
        LET uid    == last'.uid
            issued == { i \in DOMAIN sent :
                          sent[i].kind = "DeletionCode" /\ sent[i].to = uid }
            latest == sent[CHOOSE i \in issued : \A j \in issued : j <= i]
            valid  == /\ issued # {}
                      /\ last'.code # ""
                      /\ last'.code = latest.code
                      /\ clock <= latest.at + 10 * 60 * 1000
        IN  /\ DOMAIN users' = DOMAIN users
            /\ \A u \in DOMAIN users : u # uid => users'[u] = users[u]
            /\ ~valid => (users' = users /\ last'.status \in {400, 404})
            /\ last'.status \in {200, 500} =>
                 /\ valid
                 /\ users' = [users EXCEPT ![uid].deleted_at = clock]
            /\ last'.status \in {200, 400, 404, 500}
    ]_vars

C30_Witness ==
  /\ last.op = "verify-deletion" /\ last.status = 200
  /\ last.uid \in DOMAIN users
  /\ users[last.uid].deleted_at = clock
  /\ clock > 0
  /\ \E i, j \in DOMAIN sent :
       /\ i < j
       /\ sent[i].kind = "DeletionCode" /\ sent[j].kind = "DeletionCode"
       /\ sent[i].to = last.uid /\ sent[j].to = last.uid
       /\ sent[i].code # sent[j].code /\ sent[j].code = last.code

====
